---- MODULE Spec2Model ----
(***************************************************************************)
(* Model of main.py of GoT_Network_Bokeh: the batch pipeline that turns    *)
(* the query result into a Bokeh graph renderer (lines 37-84) and the two  *)
(* CustomJS callbacks that run in the browser (lines 108-156).             *)
(*                                                                         *)
(* Strings that the callbacks inspect character by character (node names,  *)
(* the filter text) are sequences of one-character strings.  A cell of a   *)
(* pandas column is NaN (missing) or Val(x).                               *)
(***************************************************************************)
EXTENDS Integers, Sequences, FiniteSets, TLC

VARIABLES
    pc,               \* position of the batch script: next statement to run
    records,          \* the query result as first loaded into `data` (line 37)
    data,             \* the DataFrame `data` (sequence of rows)
    G,                \* the networkx graph G: nodes, adjacency, node attributes
    renderer,         \* graph_renderer: node and edge data sources (columns)
    text_value,       \* text_input.value
    nodes_selected,   \* renderer.node_renderer.data_source.selected.indices
    edges_selected,   \* renderer.edge_renderer.data_source.selected.indices
    stack,            \* JavaScript call stack of running callbacks (top is last)
    dispatch,         \* how BokehJS runs a CustomJS listener: "nested" or "deferred"
    queue,            \* listeners waiting to run once the call stack is empty
    event,            \* the UI event being handled (or handled last)
    invocations       \* callback invocations started since that UI event

vars == <<pc, records, data, G, renderer, text_value, nodes_selected, edges_selected,
          stack, dispatch, queue, event, invocations>>

pipeVars == <<pc, records, data, G, renderer>>
uiVars == <<text_value, nodes_selected, edges_selected, stack, dispatch, queue, event,
           invocations>>

-----------------------------------------------------------------------------
(* Bounds of the model *)

\* longest query result the batch pipeline is run on
MaxRecords == 2
\* most rows of the edge list behind the graph the callbacks run on
MaxEdges == 2
\* longest filter text typed
MaxQueryLen == 2

\* sequences over S of length at most n
SeqUpTo(S, n) == UNION {[1..k -> S] : k \in 0..n}

-----------------------------------------------------------------------------
(* pandas cells *)

NaN == <<>>
Val(x) == <<x>>
IsNaN(c) == c = <<>>

\* character names; "Ab" and "B" share a letter up to case
Names == {<<"A">>, <<"A", "b">>, <<"B">>}

RelationKinds == {"INTERACTS1", "KILLED"}

Weights == {NaN, Val(1), Val(2), Val(3)}

\* the rows the query can return (columns of the RETURN clause)
Records == [source : Names, target : Names, relation : RelationKinds, weight : Weights]

-----------------------------------------------------------------------------
(* Preprocessing, lines 39-47 *)

\* the threshold taken strictly: data['weight'] > 2
WeightAbove2(row) == ~IsNaN(row.weight) /\ row.weight[1] > 2

\* data['weight'] >= 2, elementwise: a comparison with NaN is False
WeightAtLeast2(row) == ~IsNaN(row.weight) /\ row.weight[1] >= 2

\* data['source'] != data['target'], elementwise
NotSelfLoop(row) == row.source # row.target

\* df[mask]: the rows whose mask entry is True, in the order of df
RECURSIVE BoolIndex(_, _)
BoolIndex(df, mask) ==
    IF df = <<>> THEN <<>>
    ELSE IF mask[1] THEN <<df[1]>> \o BoolIndex(Tail(df), Tail(mask))
         ELSE BoolIndex(Tail(df), Tail(mask))

WeightMask(df) == [i \in 1..Len(df) |-> WeightAtLeast2(df[i])]
SelfLoopMask(df) == [i \in 1..Len(df) |-> NotSelfLoop(df[i])]

\* color_map
color_map ==
    [k \in {"INTERACTS1", "INTERACTS2", "INTERACTS3", "INTERACTS45"} |->
        CASE k = "INTERACTS1" -> "purple"
          [] k = "INTERACTS2" -> "red"
          [] k = "INTERACTS3" -> "green"
          [] k = "INTERACTS45" -> "blue"]

\* Series.map(dict): a value that is no key of the dict maps to NaN
MapColor(relation) ==
    IF relation \in DOMAIN color_map THEN Val(color_map[relation]) ELSE NaN

WithEdgeColor(row) ==
    [source |-> row.source, target |-> row.target, relation |-> row.relation,
     weight |-> row.weight, edge_color |-> MapColor(row.relation)]

-----------------------------------------------------------------------------
(* networkx Graph, lines 52-60 *)

EmptyGraph == [nodes |-> <<>>, adj |-> <<>>, attrs |-> <<>>]

\* position of node n in G.nodes (0 when absent)
NodePos(g, n) ==
    IF \E i \in 1..Len(g.nodes) : g.nodes[i] = n
    THEN CHOOSE i \in 1..Len(g.nodes) : g.nodes[i] = n
    ELSE 0

\* add_node: a new node goes last, with an empty adjacency
AddNode(g, n) ==
    IF NodePos(g, n) # 0 THEN g
    ELSE [g EXCEPT !.nodes = Append(@, n), !.adj = Append(@, <<>>)]

\* adj[u][v] = dd: a new neighbour goes last, an old one keeps its place
SetNbr(nbrs, v, dd) ==
    IF \E j \in 1..Len(nbrs) : nbrs[j].nbr = v
    THEN [j \in 1..Len(nbrs) |->
            IF nbrs[j].nbr = v THEN [nbr |-> v, dd |-> dd] ELSE nbrs[j]]
    ELSE Append(nbrs, [nbr |-> v, dd |-> dd])

\* add_edge of a directed graph: only the source's adjacency gets the edge
AddEdgeDirected(g, row) ==
    LET dd == [relation |-> row.relation, weight |-> row.weight,
               edge_color |-> row.edge_color]
        g1 == AddNode(AddNode(g, row.source), row.target)
        u  == NodePos(g1, row.source)
    IN  [g1 EXCEPT !.adj[u] = SetNbr(@, row.target, dd)]

\* g.add_edge(s, t); g[s][t].update(attributes of the row)
AddEdge(g, row) ==
    LET dd == [relation |-> row.relation, weight |-> row.weight,
               edge_color |-> row.edge_color]
        g1 == AddNode(AddNode(g, row.source), row.target)
        u  == NodePos(g1, row.source)
        v  == NodePos(g1, row.target)
        g2 == [g1 EXCEPT !.adj[u] = SetNbr(@, row.target, dd)]
    IN  [g2 EXCEPT !.adj[v] = SetNbr(@, row.source, dd)]

\* nx.from_pandas_edgelist(data, 'source', 'target', edge_attr=True)
RECURSIVE from_pandas_edgelist(_, _)
from_pandas_edgelist(df, g) ==
    IF df = <<>> THEN g
    ELSE from_pandas_edgelist(Tail(df), AddEdge(g, df[1]))

\* G.edges(n, data=True): one entry per neighbour of n
EdgesOf(g, n) ==
    LET nbrs == g.adj[NodePos(g, n)]
    IN  [j \in 1..Len(nbrs) |-> <<n, nbrs[j].nbr, nbrs[j].dd>>]

\* the attribute loop over G.nodes()
NodeAttributes(g) ==
    [i \in 1..Len(g.nodes) |->
        LET edges == EdgesOf(g, g.nodes[i])
        IN  [degree |-> Len(edges),
             relations |-> [j \in 1..Len(edges) |->
                              <<edges[j][3].relation, edges[j][3].weight>>],
             node_color |-> "skyblue"]]

\* G.edges(): nodes in order, each edge reported from its first endpoint only
RECURSIVE EdgeList(_, _)
EdgeList(g, i) ==
    IF i > Len(g.nodes) THEN <<>>
    ELSE LET all == EdgesOf(g, g.nodes[i])
             unseen(e) == \A k \in 1..(i - 1) : g.nodes[k] # e[2]
         IN  SelectSeq(all, unseen) \o EdgeList(g, i + 1)

\* from_networkx(G, pos) and the columns attached in lines 75-84
FromNetworkx(g) ==
    LET el == EdgeList(g, 1)
    IN  [index |-> g.nodes,
         degree |-> [i \in 1..Len(g.nodes) |-> g.attrs[i].degree],
         start |-> [e \in 1..Len(el) |-> el[e][1]],
         end |-> [e \in 1..Len(el) |-> el[e][2]],
         relation |-> [e \in 1..Len(el) |-> el[e][3].relation],
         weight |-> [e \in 1..Len(el) |-> el[e][3].weight],
         line_color |-> [e \in 1..Len(el) |-> el[e][3].edge_color]]

NoRenderer == [index |-> <<>>, degree |-> <<>>, start |-> <<>>, end |-> <<>>,
               relation |-> <<>>, weight |-> <<>>, line_color |-> <<>>]

-----------------------------------------------------------------------------
(* The batch script as a state machine *)

UIIdle ==
    /\ text_value = <<>>
    /\ nodes_selected = {}
    /\ edges_selected = {}
    /\ stack = <<>>
    /\ queue = <<>>
    /\ event = [kind |-> "none", text |-> <<>>, indices |-> {},
                pre_nodes |-> {}, pre_edges |-> {}]
    /\ invocations = 0

\* data = graph.run(query).to_data_frame()
InitPipeline ==
    /\ pc = "filter_weight"
    /\ records \in SeqUpTo(Records, MaxRecords)
    /\ data = records
    /\ G = EmptyGraph
    /\ renderer = NoRenderer
    /\ dispatch = "no document yet"
    /\ UIIdle

\* line 41
FilterWeight ==
    /\ pc = "filter_weight"
    /\ data' = BoolIndex(data, WeightMask(data))
    /\ pc' = "filter_self_loops"
    /\ UNCHANGED <<records, G, renderer, uiVars>>

\* line 43
FilterSelfLoops ==
    /\ pc = "filter_self_loops"
    /\ data' = BoolIndex(data, SelfLoopMask(data))
    /\ pc' = "map_colors"
    /\ UNCHANGED <<records, G, renderer, uiVars>>

\* line 47
MapColors ==
    /\ pc = "map_colors"
    /\ data' = [i \in 1..Len(data) |-> WithEdgeColor(data[i])]
    /\ pc' = "build_graph"
    /\ UNCHANGED <<records, G, renderer, uiVars>>

\* line 52
BuildGraph ==
    /\ pc = "build_graph"
    /\ G' = from_pandas_edgelist(data, EmptyGraph)
    /\ pc' = "node_attributes"
    /\ UNCHANGED <<records, data, renderer, uiVars>>

\* lines 55-60
SetNodeAttributes ==
    /\ pc = "node_attributes"
    /\ G' = [G EXCEPT !.attrs = NodeAttributes(G)]
    /\ pc' = "renderer"
    /\ UNCHANGED <<records, data, renderer, uiVars>>

\* lines 69-84
BuildRenderer ==
    /\ pc = "renderer"
    /\ renderer' = FromNetworkx(G)
    /\ pc' = "serving"
    /\ UNCHANGED <<records, data, G, uiVars>>

NextPipeline ==
    \/ FilterWeight
    \/ FilterSelfLoops
    \/ MapColors
    \/ BuildGraph
    \/ SetNodeAttributes
    \/ BuildRenderer

SpecPipeline == InitPipeline /\ [][NextPipeline]_vars

-----------------------------------------------------------------------------
(* JavaScript strings *)

LowerChar(c) ==
    CASE c = "A" -> "a"
      [] c = "B" -> "b"
      [] OTHER -> c

\* String.prototype.toLowerCase
ToLowerCase(s) == [i \in 1..Len(s) |-> LowerChar(s[i])]

\* String.prototype.includes: v occurs in s at some offset (always, when v is "")
Includes(s, v) ==
    \E k \in 0..(Len(s) - Len(v)) : \A j \in 1..Len(v) : s[k + j] = v[j]

\* characters the user types into the text input
Alphabet == {"A", "b"}

-----------------------------------------------------------------------------
(* The callbacks, lines 108-156.  Indices are 0-based as in JavaScript.    *)

NumNodes == Len(renderer.index)
\* edges.data['start'].length
NumEdges == Len(renderer.start)

\* the test without lower-casing the node name
NodeMatchesCaseSensitive(n, value) == Includes(n, value)

\* line 116, the test of one node name n against the lower-cased text
NodeMatches(n, value) == Includes(ToLowerCase(n), value)

\* line 116: node_indices
SearchNodeIndices(text) ==
    LET value == ToLowerCase(text)
    IN  {i \in 0..(NumNodes - 1) : NodeMatches(renderer.index[i + 1], value)}

\* edge_indices by the names of the endpoints instead of the loop counter
SearchEdgeIndicesByEndpoint(node_indices) ==
    {i \in 0..(NumEdges - 1) :
        \E k \in node_indices :
            renderer.index[k + 1] \in {renderer.start[i + 1], renderer.end[i + 1]}}

\* lines 119-124: edge_indices
SearchEdgeIndices(node_indices) ==
    {i \in 0..(NumEdges - 1) : i \in node_indices \/ i \in node_indices}

\* lines 142-150: connected_edges
ConnectedEdges(selected) ==
    {i \in 0..(NumEdges - 1) : i \in selected \/ i \in selected}

\* connected_nodes as the positions of the endpoints of the connected edges
ConnectedNodesByEndpoint(selected) ==
    {k \in 0..(NumNodes - 1) :
        \E i \in ConnectedEdges(selected) :
            renderer.index[k + 1] \in {renderer.start[i + 1], renderer.end[i + 1]}}

\* lines 142-151: [...new Set(connected_nodes)]
ConnectedNodes(selected) ==
    UNION {{i, i} : i \in ConnectedEdges(selected)}

\* js_on_change('indices', ...): the property change signal is emitted, and the
\* listener run, when the value assigned differs from the current one
Changed(old, new) == old # new

Frame(cb, at, nodes, edges) == [cb |-> cb, pc |-> at, nodes |-> nodes, edges |-> edges]

Top == stack[Len(stack)]
Pop == SubSeq(stack, 1, Len(stack) - 1)
ReplaceTop(f) == Append(Pop, f)

\* selected.js_on_change('indices', highlight_callback), line 156: a write of
\* nodes.selected.indices by the handler whose frame becomes `here`.  When the
\* value changed, CustomJS.execute runs highlight_callback inside the write
\* (dispatch "nested") or as a job after the running handlers (dispatch
\* "deferred"), depending on the BokehJS release.
WriteNodeIndices(here, new) ==
    /\ nodes_selected' = new
    /\ IF ~Changed(nodes_selected, new)
       THEN /\ stack' = ReplaceTop(here)
            /\ UNCHANGED <<queue, invocations>>
       ELSE IF dispatch = "nested"
       THEN /\ stack' = Append(ReplaceTop(here), Frame("highlight", "start", {}, {}))
            /\ invocations' = invocations + 1
            /\ UNCHANGED queue
       ELSE /\ stack' = ReplaceTop(here)
            /\ queue' = Append(queue, "highlight")
            /\ UNCHANGED invocations

\* the user edits the text input: text_input.js_on_change('value', search_callback)
UserFilter(q) ==
    /\ pc = "serving"
    /\ stack = <<>>
    /\ queue = <<>>
    /\ q # text_value
    /\ text_value' = q
    /\ stack' = <<Frame("search", "start", {}, {})>>
    /\ event' = [kind |-> "filter", text |-> q, indices |-> {},
                 pre_nodes |-> nodes_selected, pre_edges |-> edges_selected]
    /\ invocations' = 1
    /\ UNCHANGED <<pipeVars, nodes_selected, edges_selected, dispatch, queue>>

\* search_callback, lines 111-127: up to and including the write of
\* nodes.selected.indices
SearchRun ==
    /\ stack # <<>>
    /\ Top.cb = "search"
    /\ Top.pc = "start"
    /\ LET node_indices == SearchNodeIndices(text_value)
           edge_indices == SearchEdgeIndices(node_indices)
       IN  WriteNodeIndices(Frame("search", "l128", node_indices, edge_indices),
                            node_indices)
    /\ UNCHANGED <<pipeVars, text_value, edges_selected, dispatch, event>>

\* search_callback, line 128
SearchFinish ==
    /\ stack # <<>>
    /\ Top.cb = "search"
    /\ Top.pc = "l128"
    /\ edges_selected' = Top.edges
    /\ stack' = Pop
    /\ UNCHANGED <<pipeVars, text_value, nodes_selected, dispatch, queue, event,
                   invocations>>

\* the user taps: the TapTool replaces the node selection (line 101), and
\* selected.js_on_change('indices', highlight_callback) fires when it changed
UserTap(S) ==
    /\ pc = "serving"
    /\ stack = <<>>
    /\ queue = <<>>
    /\ Changed(nodes_selected, S)
    /\ nodes_selected' = S
    /\ stack' = <<Frame("highlight", "start", {}, {})>>
    /\ event' = [kind |-> "select", text |-> text_value, indices |-> S,
                 pre_nodes |-> nodes_selected, pre_edges |-> edges_selected]
    /\ invocations' = 1
    /\ UNCHANGED <<pipeVars, text_value, edges_selected, dispatch, queue>>

\* highlight_callback, lines 138-151: up to and including the write of
\* nodes.selected.indices
HighlightRun ==
    /\ stack # <<>>
    /\ Top.cb = "highlight"
    /\ Top.pc = "start"
    /\ LET selected == nodes_selected
           connected_nodes == ConnectedNodes(selected)
           connected_edges == ConnectedEdges(selected)
       IN  WriteNodeIndices(Frame("highlight", "l152", connected_nodes, connected_edges),
                            connected_nodes)
    /\ UNCHANGED <<pipeVars, text_value, edges_selected, dispatch, event>>

\* highlight_callback, line 152
HighlightFinish ==
    /\ stack # <<>>
    /\ Top.cb = "highlight"
    /\ Top.pc = "l152"
    /\ edges_selected' = Top.edges
    /\ stack' = Pop
    /\ UNCHANGED <<pipeVars, text_value, nodes_selected, dispatch, queue, event,
                   invocations>>

\* a deferred highlight_callback starts once the running handler has returned
RunDeferred ==
    /\ stack = <<>>
    /\ queue # <<>>
    /\ stack' = <<Frame(Head(queue), "start", {}, {})>>
    /\ queue' = Tail(queue)
    /\ invocations' = invocations + 1
    /\ UNCHANGED <<pipeVars, text_value, nodes_selected, edges_selected, dispatch, event>>

\* rows of the edge list the served graph is built from
EdgeRows ==
    {r \in [source : Names, target : Names, relation : {"INTERACTS1"}, weight : {Val(2)}] :
        r.source # r.target}

\* lines 41-47 in one go
Preprocess(df) ==
    LET d1 == BoolIndex(df, WeightMask(df))
        d2 == BoolIndex(d1, SelfLoopMask(d1))
    IN  [i \in 1..Len(d2) |-> WithEdgeColor(d2[i])]

\* line 52 and lines 55-60
BuildG(df) ==
    LET g == from_pandas_edgelist(df, EmptyGraph)
    IN  [g EXCEPT !.attrs = NodeAttributes(g)]

\* the document as served: the script has run to its end on some query result
Init ==
    /\ pc = "serving"
    /\ records \in SeqUpTo(EdgeRows, MaxEdges)
    /\ data = Preprocess(records)
    /\ G = BuildG(data)
    /\ renderer = FromNetworkx(G)
    /\ dispatch \in {"nested", "deferred"}
    /\ UIIdle

Next ==
    \/ \E q \in SeqUpTo(Alphabet, MaxQueryLen) : UserFilter(q)
    \/ SearchRun
    \/ SearchFinish
    \/ \E S \in SUBSET (0..(NumNodes - 1)) : UserTap(S)
    \/ HighlightRun
    \/ HighlightFinish
    \/ RunDeferred

Spec == Init /\ [][Next]_vars

-----------------------------------------------------------------------------
(* Properties of the batch pipeline, checked under SpecPipeline *)

FilterDone == pc \notin {"filter_weight", "filter_self_loops"}
AttrsDone == pc \in {"renderer", "serving"}

\* the four columns of the query result
QueryColumns(row) ==
    [source |-> row.source, target |-> row.target, relation |-> row.relation,
     weight |-> row.weight]

\* positions of the records that pass both tests of the Record Filter
Kept ==
    {j \in 1..Len(records) :
        /\ ~IsNaN(records[j].weight)
        /\ records[j].weight[1] >= 2
        /\ records[j].source # records[j].target}

\* C5: the Record Filter's output is the subsequence of the input, in the
\* original order, of the records with weight >= 2 and source != target; a
\* record with a missing weight is dropped and the script runs on; no edge of
\* the built graph is a self-loop or has a weight below 2.
C5_RecordFilter ==
    /\ FilterDone =>
        /\ Len(data) = Cardinality(Kept)
        /\ \A j \in Kept :
              QueryColumns(data[Cardinality({k \in Kept : k <= j})]) = records[j]
    /\ pc = "serving" =>
        \A e \in 1..Len(renderer.start) :
            /\ renderer.start[e] # renderer.end[e]
            /\ ~IsNaN(renderer.weight[e])
            /\ renderer.weight[e][1] >= 2

\* a record with a missing weight was dropped, one after it was kept, and the
\* script ran to its end
C5_Witness ==
    /\ pc = "serving"
    /\ Len(records) = 2
    /\ IsNaN(records[1].weight)
    /\ Len(data) = 1
    /\ Len(renderer.start) = 1

\* number of rows of the filtered edge sequence with node n as an endpoint
IncidentRows(n) ==
    Cardinality({j \in 1..Len(data) : data[j].source = n \/ data[j].target = n})

\* number of distinct nodes that some row of the filtered sequence joins to n
DistinctNeighbours(n) ==
    Cardinality({m \in Names :
        \E j \in 1..Len(data) : {data[j].source, data[j].target} = {n, m}})

\* C6 as stated: every node's stored degree is the number of rows of the
\* filtered edge sequence that have the node as an endpoint, also when several
\* rows join the same pair of nodes.
C6_DegreeCountsRows ==
    AttrsDone =>
        \A i \in 1..Len(G.nodes) : G.attrs[i].degree = IncidentRows(G.nodes[i])

\* C6 amended: every node's stored degree is the number of distinct nodes that
\* the filtered edge sequence joins it to; rows joining the same pair of nodes,
\* in the same or in opposite directions, count once together.
C6_DegreeCountsNeighbours ==
    /\ AttrsDone =>
        \A i \in 1..Len(G.nodes) : G.attrs[i].degree = DistinctNeighbours(G.nodes[i])
    /\ pc = "serving" =>
        \A i \in 1..Len(renderer.index) :
            renderer.degree[i] = DistinctNeighbours(renderer.index[i])

\* two rows joining the same pair in opposite directions, one edge in the graph
C6_Witness ==
    /\ pc = "serving"
    /\ Len(data) = 2
    /\ data[1].source = data[2].target
    /\ data[1].target = data[2].source
    /\ Len(G.nodes) = 2
    /\ \A i \in 1..Len(G.nodes) : G.attrs[i].degree = 1

\* C7: every edge handed to rendering has a defined color, also an edge whose
\* relation kind is not in the palette.
C7_ColorDefined ==
    pc = "serving" =>
        \A e \in 1..Len(renderer.line_color) : ~IsNaN(renderer.line_color[e])

-----------------------------------------------------------------------------
(* Properties of the callbacks, checked under Spec *)

Idle == stack = <<>> /\ queue = <<>>

\* name of the node at 0-based position i
NodeName(i) == renderer.index[i + 1]

\* edges (0-based) with an endpoint whose name is the name of a node in S
EdgesTouching(S) ==
    {e \in 0..(NumEdges - 1) :
        \E i \in S : NodeName(i) \in {renderer.start[e + 1], renderer.end[e + 1]}}

\* nodes (0-based) that are an endpoint of an edge in E
EndpointsOf(E) ==
    {i \in 0..(NumNodes - 1) :
        \E e \in E : NodeName(i) \in {renderer.start[e + 1], renderer.end[e + 1]}}

\* C1: after a node-selection-changed event with selection S, the highlighted
\* edges are exactly the edges with an endpoint in S, and the highlighted nodes
\* are S with the opposite endpoints of those edges.
C1_HighlightByEndpoint ==
    (Idle /\ event.kind = "select") =>
        /\ edges_selected = EdgesTouching(event.indices)
        /\ nodes_selected = event.indices \cup EndpointsOf(EdgesTouching(event.indices))

\* v occurs in s as a contiguous piece
IsSubstring(v, s) ==
    \E a \in 1..(Len(s) + 1) : \E b \in 0..Len(s) : SubSeq(s, a, b) = v

\* frames of search_callback that have computed node_indices
SearchFrames == {k \in 1..Len(stack) : stack[k].cb = "search" /\ stack[k].pc = "l128"}

\* C2: for a non-empty query, a node is in the matched set computed by the
\* filter-text handler if and only if its lower-cased name contains the
\* lower-cased query.
C2_FilterMatches ==
    \A k \in SearchFrames :
        text_value # <<>> =>
            \A i \in 0..(NumNodes - 1) :
                i \in stack[k].nodes <=>
                    IsSubstring(ToLowerCase(text_value), ToLowerCase(NodeName(i)))

\* a query of two characters matched some but not all of three nodes
C2_Witness ==
    \E k \in SearchFrames :
        /\ Len(text_value) = 2
        /\ NumNodes = 3
        /\ stack[k].nodes # {}
        /\ stack[k].nodes # 0..(NumNodes - 1)

\* C3: for the empty query the matched set computed by the filter-text
\* handler is empty.
C3_EmptyQueryMatchesNothing ==
    \A k \in SearchFrames : text_value = <<>> => stack[k].nodes = {}

\* C4 as stated: a filter-text-changed event leaves the highlighted node set
\* and the highlighted edge set as they were before the event.
C4_FilterKeepsHighlight ==
    (Idle /\ event.kind = "filter") =>
        /\ nodes_selected = event.pre_nodes
        /\ edges_selected = event.pre_edges

\* C4 amended: a filter-text-changed event leaves the highlighted node set and
\* the highlighted edge set as they were before the event when the matched
\* index set equals the node selection held before the event.
C4_FilterKeepsHighlightWhenSameMatch ==
    (Idle /\ event.kind = "filter" /\ SearchNodeIndices(event.text) = event.pre_nodes) =>
        /\ nodes_selected = event.pre_nodes
        /\ edges_selected = event.pre_edges

\* a filter event whose matches are the nodes already selected, in a graph
\* of two edges
C4_Witness ==
    /\ Idle
    /\ event.kind = "filter"
    /\ event.text # <<>>
    /\ event.pre_nodes # {}
    /\ SearchNodeIndices(event.text) = event.pre_nodes
    /\ NumEdges = 2

\* C9: each UI event starts exactly one handler invocation, and no handler
\* starts while another is between its writes of the selection state.
C9_OneRecomputationPerEvent ==
    /\ invocations <= 1
    /\ Len(stack) <= 1

\* C10: the chain of callback invocations started by one user event is finite
\* (at most two invocations after a tap, three after a filter text change) and
\* ends in a state where running the highlight callback again would change
\* neither the node selection nor the edge selection.
C10_ChainEndsQuiescent ==
    /\ invocations <= (IF event.kind = "select" THEN 2 ELSE 3)
    /\ Len(stack) <= invocations
    /\ Idle =>
        /\ ConnectedNodes(nodes_selected) = nodes_selected
        /\ ConnectedEdges(nodes_selected) = edges_selected

\* a chain of three invocations (search, highlight, highlight) has ended
C10_Witness ==
    /\ Idle
    /\ invocations = 3
    /\ nodes_selected # {}

====
